---------------------------- MODULE Spec2Model ----------------------------
(* A model of the form-driven generators of the MBZUAI HPC toolkit: the      *)
(* Dockerfile and SLURM script generators of local_to_hpc.py with the        *)
(* Streamlit page that drives them, and the generators of tools.py and       *)
(* streamlit_app.py.                                                          *)
(*                                                                           *)
(* Text.  A Python str is modelled as a sequence of tokens (TLA+ strings)    *)
(* whose concatenation is the str.  Template literals are cut at every       *)
(* substitution point, at every line end ("\n"), and around the tokens the   *)
(* properties look at (#SBATCH, the option names, $VARIABLES, $(date), %j,   *)
(* FROM, RUN).  A value that goes through str.replace is cut at every ' ',   *)
(* '/' and ':' so that replace acts on single-character tokens.  The text of *)
(* a template that goes through textwrap.dedent has every leading blank of a *)
(* line as a token of its own.                                               *)
EXTENDS Integers, Sequences, FiniteSets, TLC

VARIABLES
    module,          \* local_to_hpc.py module-level names (lines 7-11)
    call,            \* the last direct call of a generator: its name and arguments
    ret,             \* what that call returned or raised
    ref,             \* an earlier call and its outcome, kept for comparison
    connected,       \* the browser sessions whose script has run at least once
    widgets,         \* per session: the value of every keyed widget of local_to_hpc.render
    session_state,   \* per session: st.session_state (generated_script_t2)
    page,            \* per session: what the last run of render() put on the page
    last_click       \* per session: the widget values at the last Generate click

vars == << module, call, ret, ref, connected, widgets, session_state, page, last_click >>

-----------------------------------------------------------------------------
(* Bounds of the model.                                                      *)

\* st.number_input "Number of Nodes" has min_value=1 and no max_value: the
\* model lets the node count range over 1..MaxNodes.
MaxNodes == 2

-----------------------------------------------------------------------------
(* Python values.                                                            *)

\* Optional values: None, or a str.
None == [none |-> TRUE, v |-> <<>>]

Some(t) == [none |-> FALSE, v |-> t]

\* Python truthiness of an Optional[str]: None and "" are falsy.
Truthy(o) == ~o.none /\ o.v # <<>>

\* str(n) of an int.
Str(n) == << ToString(n) >>

RECURSIVE Join(_)
\* "".join(chunks)
Join(chunks) ==
    IF chunks = <<>> THEN <<>> ELSE Head(chunks) \o Join(Tail(chunks))

RECURSIVE str_replace(_, _, _)
\* s.replace(old, new) for a one-character old; new is "" or one character.
str_replace(s, old, new) ==
    IF s = <<>> THEN <<>>
    ELSE (IF Head(s) = old THEN new ELSE << Head(s) >>) \o str_replace(Tail(s), old, new)

-----------------------------------------------------------------------------
(* f-strings.  A template is the sequence of the parts of an f-string        *)
(* literal: L(text) is literal text, P(name) is a replacement field {name}   *)
(* whose value is a str, I(name) one whose value is an int.                  *)

L(t) == [kind |-> "lit", text |-> t, name |-> ""]

P(n) == [kind |-> "str", text |-> <<>>, name |-> n]

I(n) == [kind |-> "int", text |-> <<>>, name |-> n]

\* How each replacement field reads in the source of the templates.
FieldSource ==
    [ base_image_version        |-> "{base_image_version}",
      app_script_name           |-> "{app_script_name}",
      app_image_name            |-> "{app_image_name}",
      optimization_type         |-> "{optimization_type}",
      project_name              |-> "{project_name}",
      optimization_type_replace |-> "{optimization_type.replace(' ', '_').replace('/', '').replace(':', '')}",
      SLURM_ACCOUNT             |-> "{SLURM_ACCOUNT}",
      HPC_DATA_PATH             |-> "{HPC_DATA_PATH}",
      PRIVATE_DOCKER_REGISTRY   |-> "{PRIVATE_DOCKER_REGISTRY}",
      HPC_PROJECT_REPOSITORY    |-> "{HPC_PROJECT_REPOSITORY}",
      nodes_final               |-> "{nodes_final}",
      gpus_per_node             |-> "{gpus_per_node}",
      gpu_request               |-> "{gpu_request}",
      time_final                |-> "{time_final}",
      sif_name                  |-> "{sif_name}",
      sif_file                  |-> "{sif_file}",
      image_tag                 |-> "{image_tag}",
      run_command               |-> "{run_command}",
      base_image                |-> "{base_image}",
      install_libs              |-> "{install_libs}",
      entry_cmd                 |-> "{entry_cmd}",
      job_name                  |-> "{job_name}",
      time                      |-> "{time}",
      gpus                      |-> "{gpus}",
      cpus                      |-> "{cpus}",
      mem                       |-> "{mem}",
      partition                 |-> "{partition}",
      script_name               |-> "{script_name}",
      base_image_split_0        |-> "{base_image.split()[0]}",
      install_cmd               |-> "{install_cmd}",
      gpu_count                 |-> "{gpu_count}",
      time_limit                |-> "{time_limit}",
      data_path                 |-> "{data_path}",
      username                  |-> "{username}",
      home_dir                  |-> "{home_dir}",
      shell                     |-> "{shell}",
      groupname                 |-> "{groupname}",
      perm                      |-> "{perm}",
      path                      |-> "{path}",
      uname                     |-> "{uname}" ]

\* The tokens of the templates that belong to the shell and to SLURM.
ShellTokens == { "$SIF_FILE_PATH", "$SLURM_JOB_ID", "$SLURM_JOB_NODELIST", "$(date)", "%j" }

\* Chunk, had the literal lost its f prefix: every field stays as written.
ChunkUnformatted(seg, env) ==
    IF seg.kind = "lit" THEN seg.text ELSE << FieldSource[seg.name] >>

\* Chunk, had the text also gone through a $-expanding substitution
\* (string.Template, os.path.expandvars): the shell's tokens are consumed.
ChunkExpandVars(seg, env) ==
    IF seg.kind = "lit" THEN SelectSeq(seg.text, LAMBDA t : t \notin ShellTokens)
    ELSE IF seg.kind = "int" THEN Str(env[seg.name])
    ELSE env[seg.name]

\* One part of an f-string evaluated in the namespace env: a literal stands
\* for itself, a replacement field for format(value).
Chunk(seg, env) ==
    IF seg.kind = "lit" THEN seg.text
    ELSE IF seg.kind = "int" THEN Str(env[seg.name])
    ELSE env[seg.name]

\* The parts of the evaluated f-string, one chunk per part of the template.
Format(tpl, env) == [i \in DOMAIN tpl |-> Chunk(tpl[i], env)]

\* The str an f-string evaluates to.
fstring(tpl, env) == Join(Format(tpl, env))

-----------------------------------------------------------------------------
(* local_to_hpc.py: configuration constants.                                 *)

PRIVATE_DOCKER_REGISTRY == << "hpc-registry.cscc.local" >>

HPC_PROJECT_REPOSITORY == << "research-containers" >>

DEFAULT_IMAGE_NAME == << "ml-app-base" >>

SLURM_ACCOUNT == << "ai_research_hpc" >>

HPC_DATA_PATH == << "/shared/scratch/ai_datasets" >>

(* local_to_hpc.py: the limits of the number inputs of render().             *)

\* st.number_input "Number of Nodes": min_value=1.
NODES_MIN == 1

\* st.number_input "GPUs per Node": min_value=0, max_value=8.
GPUS_MIN == 0

GPUS_MAX == 8

\* The module namespace once local_to_hpc.py is imported.
ModuleGlobals ==
    [ PRIVATE_DOCKER_REGISTRY |-> PRIVATE_DOCKER_REGISTRY,
      HPC_PROJECT_REPOSITORY  |-> HPC_PROJECT_REPOSITORY,
      DEFAULT_IMAGE_NAME      |-> DEFAULT_IMAGE_NAME,
      SLURM_ACCOUNT           |-> SLURM_ACCOUNT,
      HPC_DATA_PATH           |-> HPC_DATA_PATH ]

-----------------------------------------------------------------------------
(* local_to_hpc.py: the templates, part by part as written in the source.    *)

\* local_to_hpc.py lines 20-39
DockerfileTemplate ==
    << L(<<"# Dockerfile for MBZUAI AI Application (General)", "\n",
         "# Use NVIDIA PyTorch NGC container as base for maximum GPU compatibility", "\n",
         "FROM ", "nvcr.io/nvidia/pytorch:">>),
       P("base_image_version"),
       L(<<" AS builder", "\n",
         "\n",
         "# Set the working directory", "\n",
         "WORKDIR /app", "\n",
         "\n",
         "# Copy and install dependencies", "\n",
         "# A 'requirements.txt' file should be placed next to your Dockerfile.", "\n",
         "COPY requirements.txt .", "\n",
         "RUN ", "pip install --no-cache-dir -r requirements.txt", "\n",
         "\n",
         "# Copy the core AI application code", "\n",
         "COPY ">>),
       P("app_script_name"),
       L(<<" .", "\n",
         "COPY src /app/src # Copy source code directory if applicable", "\n",
         "\n",
         "# Set a default command to run when the container starts", "\n",
         "# The command is derived from the main script name", "\n",
         "CMD [\"python\", \"">>),
       P("app_script_name"),
       L(<<"\", \"--config\", \"/app/config/default.yaml\"]", "\n">>) >>

\* local_to_hpc.py lines 48-48
SifNameTemplate ==
    << P("project_name"),
       L(<<"-v1.0.sif">>) >>

\* local_to_hpc.py lines 53-53
DdpGpuRequest ==
    << L(<<"#SBATCH ", "--gpus-per-node=">>),
       I("gpus_per_node"),
       L(<<" ", "\n",
         "#SBATCH ", "--constraint=", "a100|h100">>) >>

\* local_to_hpc.py lines 56-75
DdpRunCommand ==
    << L(<<"\n",
         "# --- Distributed Training Setup (PyTorch DDP/Apptainer) ---", "\n",
         "export MASTER_ADDR=$(scontrol show hostnames ", "$SLURM_JOB_NODELIST", " | head -n 1)", "\n",
         "export MASTER_PORT=29500 ", "\n",
         "export NNODES=", "$SLURM_JOB_NUM_NODES", "\n",
         "export NPROC_PER_NODE=">>),
       I("gpus_per_node"),
       L(<<"\n",
         "\n",
         "# The Apptainer container provides the environment and libs (CUDA/NCCL)", "\n",
         "apptainer exec \\", "\n",
         "    ", "--nv", " \\", "\n",
         "    --bind ">>),
       P("HPC_DATA_PATH"),
       L(<<":/data \\", "\n",
         "    ", "$SIF_FILE_PATH", " \\", "\n",
         "    torchrun \\", "\n",
         "        --nnodes ", "$NNODES", " \\", "\n",
         "        --nproc_per_node ", "$NPROC_PER_NODE", " \\", "\n",
         "        --rdzv_id ", "$SLURM_JOB_ID", " \\", "\n",
         "        --rdzv_backend c10d \\", "\n",
         "        --rdzv_endpoint ", "$MASTER_ADDR", ":", "$MASTER_PORT", " \\", "\n",
         "        /app/main_training_script.py --data-path /data/full_corpus", "\n">>) >>

\* local_to_hpc.py lines 78-78
SingleNodeGpuRequest ==
    << L(<<"#SBATCH ", "--gpus=">>),
       I("gpus_per_node") >>

\* local_to_hpc.py lines 81-88
SingleNodeRunCommand ==
    << L(<<"\n",
         "# --- Single-Node Multi-GPU Fine-Tuning/Inference ---", "\n",
         "apptainer exec \\", "\n",
         "    ", "--nv", " \\", "\n",
         "    --bind ">>),
       P("HPC_DATA_PATH"),
       L(<<":/data \\", "\n",
         "    ", "$SIF_FILE_PATH", " \\", "\n",
         "    python3 /app/main_training_script.py --mode fine-tune --gpus-per-node ">>),
       I("gpus_per_node"),
       L(<<"\n">>) >>

\* local_to_hpc.py lines 94-101
LoraRunCommand ==
    << L(<<"\n",
         "# --- Low-Memory PEFT/LoRA Setup ---", "\n",
         "apptainer exec \\", "\n",
         "    ", "--nv", " \\", "\n",
         "    --bind ">>),
       P("HPC_DATA_PATH"),
       L(<<":/data \\", "\n",
         "    ", "$SIF_FILE_PATH", " \\", "\n",
         "    python3 /app/main_training_script.py --method lora --gpu 0", "\n">>) >>

\* local_to_hpc.py lines 104-104
CustomGpuRequest ==
    << L(<<"#SBATCH ", "--gpus=">>),
       I("gpus_per_node"),
       L(<<" ", "\n",
         "#SBATCH ", "--constraint=", "a100|h100">>) >>

\* local_to_hpc.py lines 107-115
CustomRunCommand ==
    << L(<<"\n",
         "# --- Custom User-Defined Job ---", "\n",
         "# Placeholder: Adjust the apptainer exec line and script arguments below", "\n",
         "apptainer exec \\", "\n",
         "    ", "--nv", " \\", "\n",
         "    --bind ">>),
       P("HPC_DATA_PATH"),
       L(<<":/data \\", "\n",
         "    ", "$SIF_FILE_PATH", " \\", "\n",
         "    /bin/bash -c \"echo 'Custom job running...' && python3 /app/my_custom_script.py --nodes ", "$SLURM_JOB_NUM_NODES", "\"", "\n">>) >>

\* local_to_hpc.py lines 120-125
DefaultRunCommand ==
    << L(<<"\n",
         "# --- Default CPU Validation Job ---", "\n",
         "apptainer exec \\", "\n",
         "    ", "$SIF_FILE_PATH", " \\", "\n",
         "    python3 /app/check_dependencies.py --validate-cpu", "\n">>) >>

\* local_to_hpc.py lines 128-158
SlurmScriptTemplate ==
    << L(<<"#!/bin/bash", "\n",
         "#", "\n",
         "# SLURM Job Script: ">>),
       P("optimization_type"),
       L(<<"\n",
         "# Targeting MBZUAI AI Research Project: ">>),
       P("project_name"),
       L(<<"\n",
         "#", "\n",
         "#SBATCH ", "--job-name=">>),
       P("project_name"),
       L(<<"_">>),
       P("optimization_type_replace"),
       L(<<"\n",
         "#SBATCH ", "--account=">>),
       P("SLURM_ACCOUNT"),
       L(<<"\n",
         "#SBATCH ", "--partition=", "compute", "\n",
         "#SBATCH ", "--nodes=">>),
       I("nodes_final"),
       L(<<"\n">>),
       P("gpu_request"),
       L(<<"\n",
         "#SBATCH ", "--ntasks-per-node=", "1", "\n",
         "#SBATCH ", "--time=">>),
       P("time_final"),
       L(<<"\n",
         "#SBATCH ", "--output=slurm-", "%j", ".out", "\n",
         "#SBATCH ", "--error=slurm-", "%j", ".err", "\n",
         "\n",
         "echo \"--- SLURM JOB START: ", "$(date)", " ---\"", "\n",
         "\n",
         "# --- Environment Setup ---", "\n",
         "module load apptainer # Load Apptainer runtime module", "\n",
         "SIF_FILE_PATH=\"/global/apps/containers/">>),
       P("sif_name"),
       L(<<"\" ", "\n",
         "\n",
         "# Check if SIF exists (best practice)", "\n",
         "if [ ! -f \"", "$SIF_FILE_PATH", "\" ]; then", "\n",
         "    echo \"ERROR: Apptainer SIF file not found at ", "$SIF_FILE_PATH", "\"", "\n",
         "    exit 1", "\n",
         "fi", "\n",
         "\n">>),
       P("run_command"),
       L(<<"\n",
         "\n",
         "echo \"--- SLURM JOB END: ", "$(date)", " ---\"", "\n">>) >>

\* local_to_hpc.py lines 205-205
ImageTagTemplate ==
    << P("PRIVATE_DOCKER_REGISTRY"),
       L(<<"/">>),
       P("HPC_PROJECT_REPOSITORY"),
       L(<<"/">>),
       P("app_image_name"),
       L(<<":v1.0">>) >>

\* local_to_hpc.py lines 207-216
DockerCommandsTemplate ==
    << L(<<"\n",
         "# 1. Build the Docker image on your local machine", "\n",
         "docker build -t ">>),
       P("image_tag"),
       L(<<" .", "\n",
         "\n",
         "# 2. Authenticate to the HPC Private Registry", "\n",
         "docker login ">>),
       P("PRIVATE_DOCKER_REGISTRY"),
       L(<<" ", "\n",
         "\n",
         "# 3. Push the image to the registry for Apptainer access", "\n",
         "docker push ">>),
       P("image_tag"),
       L(<<"\n">>) >>

\* local_to_hpc.py lines 220-220
SifFileTemplate ==
    << P("app_image_name"),
       L(<<"_v1.0.sif">>) >>

\* local_to_hpc.py lines 221-227
ApptainerCommandsTemplate ==
    << L(<<"\n",
         "# 1. Pull the Docker image from the private registry and convert it to a secure SIF file.", "\n",
         "apptainer build ">>),
       P("sif_file"),
       L(<<" docker://">>),
       P("image_tag"),
       L(<<"\n",
         "\n",
         "# 2. Move the SIF image to a shared global location for job scripts", "\n",
         "# mv ">>),
       P("sif_file"),
       L(<<" /global/apps/containers/", "\n">>) >>

\* local_to_hpc.py lines 285-285
DownloadFileNameTemplate ==
    << P("project_name"),
       L(<<"_job.sh">>) >>

\* local_to_hpc.py line 91: the LoRA branch's gpu_request (a plain literal).
LoraGpuRequest == << "#SBATCH ", "--gpus=", "1", " ", "\n", "#SBATCH ", "--mem=", "64G" >>

\* local_to_hpc.py lines 104 and 117: the CPU-only gpu_request (a plain literal).
CpuRequest == << "#SBATCH ", "--cpus-per-task=", "4" >>

\* local_to_hpc.py line 119: the time limit of the default branch.
DefaultTimeFinal == << "0-00:10:00" >>

(* local_to_hpc.py: the profile names, as compared in generate_slurm_script   *)
(* and offered by the selectbox.                                              *)

MULTI_NODE_DDP == << "Highly-Optimized", " ", "Multi-Node", " ", "(DDP)" >>

SINGLE_NODE == << "Single-Node", " ", "Multi-GPU", " ", "Training" >>

LORA_PEFT == << "Low-Memory", " ", "Fine-Tuning", " ", "(LoRA", "/", "PEFT)" >>

CUSTOM_JOB == << "Custom", "/", "User-Defined", " ", "Job" >>

CPU_VALIDATION == << "Default", " ", "CPU", " ", "Validation", " ", "Job" >>

\* The options of the profile selectbox, in declaration order.
optimization_options ==
    << MULTI_NODE_DDP, SINGLE_NODE, LORA_PEFT, CUSTOM_JOB, CPU_VALIDATION >>

(* local_to_hpc.py: the generator functions.                                  *)

\* generate_dockerfile: one f-string over its arguments; app_image_name is a
\* parameter the f-string has no replacement field for.
generate_dockerfile(base_image_version, app_script_name, app_image_name) ==
    fstring(DockerfileTemplate,
            [ base_image_version |-> base_image_version,
              app_script_name    |-> app_script_name ])

\* BranchNamespace, had the generator clamped the GPU count to the widget's
\* maximum.
BranchNamespaceClamped(g, gpus_per_node) ==
    [ gpus_per_node |-> IF gpus_per_node > GPUS_MAX THEN GPUS_MAX ELSE gpus_per_node,
      HPC_DATA_PATH |-> g.HPC_DATA_PATH ]

\* The namespace the branch f-strings of generate_slurm_script read: the
\* argument gpus_per_node and the module-level HPC_DATA_PATH (g is the module
\* namespace).
BranchNamespace(g, gpus_per_node) ==
    [ gpus_per_node |-> gpus_per_node, HPC_DATA_PATH |-> g.HPC_DATA_PATH ]

\* DdpBranch, had it started one process for every GPU of the job rather
\* than of the node.
DdpBranchProcessPerJobGpu(g, nodes, gpus_per_node, time) ==
    [ gpu_request |-> fstring(DdpGpuRequest, BranchNamespace(g, gpus_per_node)),
      nodes_final |-> nodes,
      time_final  |-> time,
      run_command |-> fstring(DdpRunCommand, BranchNamespace(g, nodes * gpus_per_node)) ]

\* The names each branch of the if/elif/else chain binds: gpu_request,
\* nodes_final, time_final, run_command.
DdpBranch(g, nodes, gpus_per_node, time) ==
    [ gpu_request |-> fstring(DdpGpuRequest, BranchNamespace(g, gpus_per_node)),
      nodes_final |-> nodes,
      time_final  |-> time,
      run_command |-> fstring(DdpRunCommand, BranchNamespace(g, gpus_per_node)) ]

\* SingleNodeBranch, had it passed the node count on as the DDP branch does.
SingleNodeBranchAnyNodes(g, nodes, gpus_per_node, time) ==
    [ gpu_request |-> fstring(SingleNodeGpuRequest, BranchNamespace(g, gpus_per_node)),
      nodes_final |-> nodes,
      time_final  |-> time,
      run_command |-> fstring(SingleNodeRunCommand, BranchNamespace(g, gpus_per_node)) ]

SingleNodeBranch(g, nodes, gpus_per_node, time) ==
    [ gpu_request |-> fstring(SingleNodeGpuRequest, BranchNamespace(g, gpus_per_node)),
      nodes_final |-> 1,
      time_final  |-> time,
      run_command |-> fstring(SingleNodeRunCommand, BranchNamespace(g, gpus_per_node)) ]

\* LoraBranch, had it requested the GPUs the caller asked for.
LoraBranchGpuField(g, nodes, gpus_per_node, time) ==
    [ gpu_request |-> fstring(SingleNodeGpuRequest, BranchNamespace(g, gpus_per_node)),
      nodes_final |-> 1,
      time_final  |-> time,
      run_command |-> fstring(LoraRunCommand, BranchNamespace(g, gpus_per_node)) ]

\* LoraBranch, had the profile carried a time limit of its own (one hour)
\* and a job-scoped scratch directory in its command.
LoraBranchOwnDefaults(g, nodes, gpus_per_node, time) ==
    [ gpu_request |-> LoraGpuRequest,
      nodes_final |-> 1,
      time_final  |-> << "01:00:00" >>,
      run_command |-> << "export TMPDIR=/tmp/", "$SLURM_JOB_ID", "\n" >>
                          \o fstring(LoraRunCommand, BranchNamespace(g, gpus_per_node)) ]

\* LoraBranch, had it built its request as the Custom branch does.
LoraBranchCustomRequest(g, nodes, gpus_per_node, time) ==
    [ gpu_request |-> IF gpus_per_node > 0
                      THEN fstring(CustomGpuRequest, BranchNamespace(g, gpus_per_node))
                      ELSE CpuRequest,
      nodes_final |-> 1,
      time_final  |-> time,
      run_command |-> fstring(LoraRunCommand, BranchNamespace(g, gpus_per_node)) ]

LoraBranch(g, nodes, gpus_per_node, time) ==
    [ gpu_request |-> LoraGpuRequest,
      nodes_final |-> 1,
      time_final  |-> time,
      run_command |-> fstring(LoraRunCommand, BranchNamespace(g, gpus_per_node)) ]

\* CustomBranch, had it built its GPU request without looking at the count.
CustomBranchAlwaysGpu(g, nodes, gpus_per_node, time) ==
    [ gpu_request |-> fstring(CustomGpuRequest, BranchNamespace(g, gpus_per_node)),
      nodes_final |-> nodes,
      time_final  |-> time,
      run_command |-> fstring(CustomRunCommand, BranchNamespace(g, gpus_per_node)) ]

CustomBranch(g, nodes, gpus_per_node, time) ==
    [ gpu_request |-> IF gpus_per_node > 0
                      THEN fstring(CustomGpuRequest, BranchNamespace(g, gpus_per_node))
                      ELSE CpuRequest,
      nodes_final |-> nodes,
      time_final  |-> time,
      run_command |-> fstring(CustomRunCommand, BranchNamespace(g, gpus_per_node)) ]

\* DefaultBranch, had it passed the time limit on as the other branches do.
DefaultBranchSuppliedTime(g, nodes, gpus_per_node, time) ==
    [ gpu_request |-> CpuRequest,
      nodes_final |-> 1,
      time_final  |-> time,
      run_command |-> fstring(DefaultRunCommand, BranchNamespace(g, gpus_per_node)) ]

DefaultBranch(g, nodes, gpus_per_node, time) ==
    [ gpu_request |-> CpuRequest,
      nodes_final |-> 1,
      time_final  |-> DefaultTimeFinal,
      run_command |-> fstring(DefaultRunCommand, BranchNamespace(g, gpus_per_node)) ]

\* ProfileBranch, had the CPU validation profile its own elif and the final
\* else been the user-defined template.
ProfileBranchElseCustom(g, optimization_type, nodes, gpus_per_node, time) ==
    IF optimization_type = MULTI_NODE_DDP THEN DdpBranch(g, nodes, gpus_per_node, time)
    ELSE IF optimization_type = SINGLE_NODE THEN SingleNodeBranch(g, nodes, gpus_per_node, time)
    ELSE IF optimization_type = LORA_PEFT THEN LoraBranch(g, nodes, gpus_per_node, time)
    ELSE IF optimization_type = CPU_VALIDATION THEN DefaultBranch(g, nodes, gpus_per_node, time)
    ELSE CustomBranch(g, nodes, gpus_per_node, time)

\* The if/elif/else chain of generate_slurm_script on optimization_type.
ProfileBranch(g, optimization_type, nodes, gpus_per_node, time) ==
    IF optimization_type = MULTI_NODE_DDP THEN DdpBranch(g, nodes, gpus_per_node, time)
    ELSE IF optimization_type = SINGLE_NODE THEN SingleNodeBranch(g, nodes, gpus_per_node, time)
    ELSE IF optimization_type = LORA_PEFT THEN LoraBranch(g, nodes, gpus_per_node, time)
    ELSE IF optimization_type = CUSTOM_JOB THEN CustomBranch(g, nodes, gpus_per_node, time)
    ELSE DefaultBranch(g, nodes, gpus_per_node, time)

\* JobNameSuffix, had only the blanks been replaced.
JobNameSuffixBlanksOnly(optimization_type) == str_replace(optimization_type, " ", << "_" >>)

\* The job-name suffix: optimization_type.replace(' ', '_').replace('/', '').replace(':', '')
JobNameSuffix(optimization_type) ==
    str_replace(str_replace(str_replace(optimization_type, " ", << "_" >>), "/", <<>>), ":", <<>>)

\* The names the final f-string of generate_slurm_script is evaluated over.
SlurmNamespace(g, optimization_type, nodes, gpus_per_node, time, project_name) ==
    LET b == ProfileBranch(g, optimization_type, nodes, gpus_per_node, time)
    IN  [ optimization_type         |-> optimization_type,
          project_name              |-> project_name,
          optimization_type_replace |-> JobNameSuffix(optimization_type),
          SLURM_ACCOUNT             |-> g.SLURM_ACCOUNT,
          nodes_final               |-> b.nodes_final,
          gpu_request               |-> b.gpu_request,
          time_final                |-> b.time_final,
          sif_name                  |-> fstring(SifNameTemplate, [ project_name |-> project_name ]),
          run_command               |-> b.run_command ]

\* generate_slurm_script, had it kept its last result in a cache keyed by
\* profile and project name alone.
generate_slurm_script_memo(g, optimization_type, nodes, gpus_per_node, time, project_name) ==
    IF /\ call.fn = "generate_slurm_script"
       /\ call.args.optimization_type = optimization_type
       /\ call.args.project_name = project_name
    THEN ret.value
    ELSE fstring(SlurmScriptTemplate,
                 SlurmNamespace(g, optimization_type, nodes, gpus_per_node, time, project_name))

\* generate_slurm_script: the final f-string, returned as the script.
generate_slurm_script(g, optimization_type, nodes, gpus_per_node, time, project_name) ==
    fstring(SlurmScriptTemplate,
            SlurmNamespace(g, optimization_type, nodes, gpus_per_node, time, project_name))

(* local_to_hpc.py: render(), the Streamlit page.  Streamlit runs render()    *)
(* from top to bottom once when a session opens and once more after every     *)
(* widget interaction of that session; every widget call returns the          *)
(* widget's current value, st.button returns True only in the run its click   *)
(* caused, and st.session_state is private to the session.                    *)

\* The value= (or first option) of every keyed widget of render().
WidgetDefaults ==
    [ docker_base_tag      |-> << "24.08-py3" >>,
      docker_script_name   |-> << "train_llm_model.py" >>,
      docker_image_name    |-> DEFAULT_IMAGE_NAME,
      slurm_project_name   |-> << "my-llm-finetune" >>,
      slurm_nodes_t2       |-> 1,
      slurm_gpus_t2        |-> 4,
      slurm_time_t2        |-> << "12:00:00" >>,
      slurm_profile_select |-> optimization_options[1] ]

\* st.session_state of a session that has not run yet: no key.
NewSessionState == [k \in {} |-> None]

\* The page before the first run.
BlankPage ==
    [ dockerfile         |-> <<>>,
      docker_commands    |-> <<>>,
      apptainer_commands |-> <<>>,
      script             |-> None,
      download           |-> [shown |-> FALSE, data |-> <<>>, file_name |-> <<>>] ]

\* StoredScript, had render() generated the script on every run instead of
\* on a click.
StoredScriptEveryRun(g, w, ss, clicked) ==
    Some(generate_slurm_script(g, w.slurm_profile_select, w.slurm_nodes_t2,
                               w.slurm_gpus_t2, w.slurm_time_t2, w.slurm_project_name))

\* StoredScript, had the click stored a script only while none was stored:
\* the first script stays.
StoredScriptKeepFirst(g, w, ss, clicked) ==
    IF "generated_script_t2" \in DOMAIN ss /\ Truthy(ss.generated_script_t2)
    THEN ss.generated_script_t2
    ELSE IF clicked
    THEN Some(generate_slurm_script(g, w.slurm_profile_select, w.slurm_nodes_t2,
                                    w.slurm_gpus_t2, w.slurm_time_t2, w.slurm_project_name))
    ELSE None

\* StoredScript, had render() set the key to None on every run rather than
\* on the first: the script lives for the run of its click only.
StoredScriptResetEveryRun(g, w, ss, clicked) ==
    IF clicked
    THEN Some(generate_slurm_script(g, w.slurm_profile_select, w.slurm_nodes_t2,
                                    w.slurm_gpus_t2, w.slurm_time_t2, w.slurm_project_name))
    ELSE None

\* Lines 269-277: the key is created as None on a session's first run, and a
\* run in which the Generate button was clicked stores a fresh script.
StoredScript(g, w, ss, clicked) ==
    IF clicked
    THEN Some(generate_slurm_script(g, w.slurm_profile_select, w.slurm_nodes_t2,
                                    w.slurm_gpus_t2, w.slurm_time_t2, w.slurm_project_name))
    ELSE IF "generated_script_t2" \in DOMAIN ss THEN ss.generated_script_t2
    ELSE None

\* One run of render() in a session with widget values w and session state
\* ss: the session state it leaves and the page it draws.
RunRender(g, w, ss, clicked) ==
    LET dockerfile_content ==
            generate_dockerfile(w.docker_base_tag, w.docker_script_name, w.docker_image_name)
        image_tag ==
            fstring(ImageTagTemplate,
                    [ PRIVATE_DOCKER_REGISTRY |-> g.PRIVATE_DOCKER_REGISTRY,
                      HPC_PROJECT_REPOSITORY  |-> g.HPC_PROJECT_REPOSITORY,
                      app_image_name          |-> w.docker_image_name ])
        docker_commands ==
            fstring(DockerCommandsTemplate,
                    [ image_tag |-> image_tag,
                      PRIVATE_DOCKER_REGISTRY |-> g.PRIVATE_DOCKER_REGISTRY ])
        sif_file == fstring(SifFileTemplate, [ app_image_name |-> w.docker_image_name ])
        apptainer_commands ==
            fstring(ApptainerCommandsTemplate, [ sif_file |-> sif_file, image_tag |-> image_tag ])
        generated_script_t2 == StoredScript(g, w, ss, clicked)
        shown == Truthy(generated_script_t2)
    IN  [ session_state |-> [ generated_script_t2 |-> generated_script_t2 ],
          page |->
            [ dockerfile         |-> dockerfile_content,
              docker_commands    |-> docker_commands,
              apptainer_commands |-> apptainer_commands,
              script             |-> IF shown THEN generated_script_t2 ELSE None,
              download           |->
                  IF shown
                  THEN [ shown     |-> TRUE,
                         data      |-> generated_script_t2.v,
                         file_name |-> fstring(DownloadFileNameTemplate,
                                               [ project_name |-> w.slurm_project_name ]) ]
                  ELSE [ shown |-> FALSE, data |-> <<>>, file_name |-> <<>> ] ] ]

\* SaveSessionState, had render() kept the script in a module-level name:
\* one store for the whole process.
SaveProcessState(all, s, ss) == [t \in DOMAIN all |-> ss]

\* st.session_state is one store per session: what a run of session s leaves
\* is seen by session s alone.
SaveSessionState(all, s, ss) == [all EXCEPT ![s] = ss]

(* ------------------------------------------------------------------------ *)
(* str methods and textwrap.dedent, over token sequences.  The only blank    *)
(* characters of the templates and of the inputs are ' ' and '\n', each a    *)
(* token of its own wherever one of these functions may meet it.             *)

IsBlank(t) == t \in { " ", "\t" }

\* str.isspace for the one-character tokens.
IsSpace(t) == IsBlank(t) \/ t = "\n"

Min(S) == CHOOSE x \in S : \A y \in S : x <= y

RECURSIVE lstrip(_)
\* str.lstrip(): the leading whitespace goes.
lstrip(s) == IF s # << >> /\ IsSpace(Head(s)) THEN lstrip(Tail(s)) ELSE s

RECURSIVE rstrip(_)
\* str.rstrip(): the trailing whitespace goes.
rstrip(s) == IF s # << >> /\ IsSpace(s[Len(s)]) THEN rstrip(SubSeq(s, 1, Len(s) - 1)) ELSE s

\* str.strip().
strip(s) == rstrip(lstrip(s))

RECURSIVE split(_)
\* str.split() without arguments: the words between runs of whitespace.
split(s) ==
    LET t == lstrip(s)
        ws == { i \in DOMAIN t : IsSpace(t[i]) }
        k == IF ws = {} THEN Len(t) + 1 ELSE Min(ws)
    IN  IF t = << >> THEN << >>
        ELSE << SubSeq(t, 1, k - 1) >> \o split(SubSeq(t, k, Len(t)))

RECURSIVE join(_, _)
\* sep.join(words).
join(sep, words) ==
    IF words = << >> THEN << >>
    ELSE IF Len(words) = 1 THEN words[1]
    ELSE words[1] \o sep \o join(sep, Tail(words))

RECURSIVE SplitLines(_)
\* The lines of a text, without their line ends.
SplitLines(s) ==
    LET nl == { i \in DOMAIN s : s[i] = "\n" }
    IN  IF nl = {} THEN << s >>
        ELSE << SubSeq(s, 1, Min(nl) - 1) >> \o SplitLines(SubSeq(s, Min(nl) + 1, Len(s)))

RECURSIVE Indent(_)
\* The number of blanks a line starts with.
Indent(line) ==
    IF line # << >> /\ IsBlank(Head(line)) THEN 1 + Indent(Tail(line)) ELSE 0

\* textwrap.dedent(text): lines of blanks only become empty; the margin is
\* the longest run of blanks every other line starts with (all blanks here
\* are ' ', so the common prefix is the shortest indent); it is taken off
\* every line that has it.
dedent(text) ==
    LET raw == SplitLines(text)
        lines == [ i \in DOMAIN raw |->
                     IF \A j \in DOMAIN raw[i] : IsBlank(raw[i][j]) THEN << >> ELSE raw[i] ]
        content == { i \in DOMAIN lines : lines[i] # << >> }
        margin == IF content = {} THEN 0 ELSE Min({ Indent(lines[i]) : i \in content })
    IN  join(<< "\n" >>,
             [ i \in DOMAIN lines |->
                 IF lines[i] = << >> THEN << >>
                 ELSE SubSeq(lines[i], margin + 1, Len(lines[i])) ])

\* _code(cmd) of streamlit_app.py, linux_admin.py and bash_scripting.py: the
\* text st.code is given.
_code(cmd) == strip(dedent(cmd))

(* ------------------------------------------------------------------------ *)
(* tools.py: the container and SLURM generators of the Tools page.           *)

\* tools.py, lines 30-41.
ToolsDockerfileTemplate ==
    << L(<<"\n",
         " ", " ", " ", " ", " ", " ", " ", " ", " ", " ", " ", " ", " ", " ", " ", " ", "FROM ">>),
       P("base_image"),
       L(<<"\n",
         "\n",
         " ", " ", " ", " ", " ", " ", " ", " ", " ", " ", " ", " ", " ", " ", " ", " ", "# Install extra libraries", "\n",
         " ", " ", " ", " ", " ", " ", " ", " ", " ", " ", " ", " ", " ", " ", " ", " ", "RUN ", "pip install ">>),
       P("install_libs"),
       L(<<"\n",
         "\n",
         " ", " ", " ", " ", " ", " ", " ", " ", " ", " ", " ", " ", " ", " ", " ", " ", "# Set working directory", "\n",
         " ", " ", " ", " ", " ", " ", " ", " ", " ", " ", " ", " ", " ", " ", " ", " ", "WORKDIR /workspace", "\n",
         "\n",
         " ", " ", " ", " ", " ", " ", " ", " ", " ", " ", " ", " ", " ", " ", " ", " ", "# Default command", "\n",
         " ", " ", " ", " ", " ", " ", " ", " ", " ", " ", " ", " ", " ", " ", " ", " ", "CMD [\"">>),
       P("entry_cmd"),
       L(<<"\"]", "\n",
         " ", " ", " ", " ", " ", " ", " ", " ", " ", " ", " ", " ", " ", " ", " ", " ">>) >>

\* tools.py, lines 47-57.
ToolsSingularityTemplate ==
    << L(<<"\n",
         " ", " ", " ", " ", " ", " ", " ", " ", " ", " ", " ", " ", " ", " ", " ", " ", "Bootstrap: docker", "\n",
         " ", " ", " ", " ", " ", " ", " ", " ", " ", " ", " ", " ", " ", " ", " ", " ", "From: ">>),
       P("base_image"),
       L(<<"\n",
         "\n",
         " ", " ", " ", " ", " ", " ", " ", " ", " ", " ", " ", " ", " ", " ", " ", " ", "%post", "\n",
         " ", " ", " ", " ", " ", " ", " ", " ", " ", " ", " ", " ", " ", " ", " ", " ", " ", " ", " ", " ", "apt-get update && apt-get install -y python3-pip", "\n",
         " ", " ", " ", " ", " ", " ", " ", " ", " ", " ", " ", " ", " ", " ", " ", " ", " ", " ", " ", " ", "pip install ">>),
       P("install_libs"),
       L(<<"\n",
         "\n",
         " ", " ", " ", " ", " ", " ", " ", " ", " ", " ", " ", " ", " ", " ", " ", " ", "%runscript", "\n",
         " ", " ", " ", " ", " ", " ", " ", " ", " ", " ", " ", " ", " ", " ", " ", " ", " ", " ", " ", " ", "exec ">>),
       P("entry_cmd"),
       L(<<" \"", "$@", "\"", "\n",
         " ", " ", " ", " ", " ", " ", " ", " ", " ", " ", " ", " ", " ", " ", " ", " ">>) >>

\* tools.py, lines 79-102.
ToolsSlurmTemplate ==
    << L(<<"\n",
         " ", " ", " ", " ", " ", " ", " ", " ", " ", " ", " ", " ", "#!/bin/bash", "\n",
         " ", " ", " ", " ", " ", " ", " ", " ", " ", " ", " ", " ", "#SBATCH ", "--job-name=">>),
       P("job_name"),
       L(<<"\n",
         " ", " ", " ", " ", " ", " ", " ", " ", " ", " ", " ", " ", "#SBATCH ", "--gres=gpu:">>),
       I("gpus"),
       L(<<"\n",
         " ", " ", " ", " ", " ", " ", " ", " ", " ", " ", " ", " ", "#SBATCH ", "--cpus-per-task=">>),
       I("cpus"),
       L(<<"\n",
         " ", " ", " ", " ", " ", " ", " ", " ", " ", " ", " ", " ", "#SBATCH ", "--time=">>),
       P("time"),
       L(<<"\n",
         " ", " ", " ", " ", " ", " ", " ", " ", " ", " ", " ", " ", "#SBATCH ", "--mem=">>),
       P("mem"),
       L(<<"\n",
         " ", " ", " ", " ", " ", " ", " ", " ", " ", " ", " ", " ", "#SBATCH ", "--partition=">>),
       P("partition"),
       L(<<"\n",
         " ", " ", " ", " ", " ", " ", " ", " ", " ", " ", " ", " ", "#SBATCH ", "--output=slurm-", "%j", ".out", "\n",
         "\n",
         " ", " ", " ", " ", " ", " ", " ", " ", " ", " ", " ", " ", "# Load required modules", "\n",
         " ", " ", " ", " ", " ", " ", " ", " ", " ", " ", " ", " ", "module load python/3.10", "\n",
         " ", " ", " ", " ", " ", " ", " ", " ", " ", " ", " ", " ", "module load cuda/11.8", "\n",
         "\n",
         " ", " ", " ", " ", " ", " ", " ", " ", " ", " ", " ", " ", "# Print debug info", "\n",
         " ", " ", " ", " ", " ", " ", " ", " ", " ", " ", " ", " ", "echo \"Job started on ", "$(date)", "\"", "\n",
         " ", " ", " ", " ", " ", " ", " ", " ", " ", " ", " ", " ", "echo \"Running on node ", "$(hostname)", "\"", "\n",
         " ", " ", " ", " ", " ", " ", " ", " ", " ", " ", " ", " ", "echo \"Using ">>),
       I("gpus"),
       L(<<" A100 GPU(s) and ">>),
       I("cpus"),
       L(<<" CPU(s)\"", "\n",
         "\n",
         " ", " ", " ", " ", " ", " ", " ", " ", " ", " ", " ", " ", "# Run program", "\n",
         " ", " ", " ", " ", " ", " ", " ", " ", " ", " ", " ", " ", "python3 ">>),
       P("script_name"),
       L(<<"\n",
         "\n",
         " ", " ", " ", " ", " ", " ", " ", " ", " ", " ", " ", " ", "echo \"Job finished on ", "$(date)", "\"", "\n",
         " ", " ", " ", " ", " ", " ", " ", " ", " ", " ", " ", " ">>) >>


\* tools.py, line 23: the options of the radio, the first one selected.
container_types == << << "Dockerfile" >>, << "Singularity" >> >>

\* The Dockerfile of the container generator.
tools_dockerfile(base_image, install_libs, entry_cmd) ==
    dedent(fstring(ToolsDockerfileTemplate,
                   [ base_image |-> base_image, install_libs |-> install_libs,
                     entry_cmd |-> entry_cmd ]))

\* The Singularity definition of the container generator.
tools_singularity(base_image, install_libs, entry_cmd) ==
    dedent(fstring(ToolsSingularityTemplate,
                   [ base_image |-> base_image, install_libs |-> install_libs,
                     entry_cmd |-> entry_cmd ]))

\* What a click on "Generate Container Spec" gives st.code.
tools_container_spec(container_type, base_image, install_libs, entry_cmd) ==
    IF container_type = << "Dockerfile" >>
    THEN tools_dockerfile(base_image, install_libs, entry_cmd)
    ELSE tools_singularity(base_image, install_libs, entry_cmd)

\* tools_slurm_script, had every text input been trimmed before formatting.
tools_slurm_script_trimmed(job_name, time, gpus, cpus, mem, partition, script_name) ==
    dedent(fstring(ToolsSlurmTemplate,
                   [ job_name |-> strip(job_name), time |-> strip(time), gpus |-> gpus,
                     cpus |-> cpus, mem |-> strip(mem), partition |-> strip(partition),
                     script_name |-> strip(script_name) ]))

\* What a click on "Generate SLURM Script" of the Tools page gives st.code.
tools_slurm_script(job_name, time, gpus, cpus, mem, partition, script_name) ==
    dedent(fstring(ToolsSlurmTemplate,
                   [ job_name |-> job_name, time |-> time, gpus |-> gpus, cpus |-> cpus,
                     mem |-> mem, partition |-> partition, script_name |-> script_name ]))

\* st.code has drawn the text; st.copy_button then returns or, where the
\* installed streamlit has no attribute of that name, raises.
CopyButtonOutcomes == { "none", "AttributeError" }

(* ------------------------------------------------------------------------ *)
(* streamlit_app.py: the generators of the "Local to HPC" workflow section.  *)

\* streamlit_app.py, lines 87-99.
AppDockerfileTemplate ==
    << L(<<"\n",
         " ", " ", " ", " ", " ", " ", " ", " ", "# Base image for CUDA and Python environment", "\n",
         " ", " ", " ", " ", " ", " ", " ", " ", "FROM ">>),
       P("base_image_split_0"),
       L(<<"\n",
         " ", " ", " ", " ", " ", " ", " ", " ", "\n",
         " ", " ", " ", " ", " ", " ", " ", " ", "WORKDIR /app", "\n",
         " ", " ", " ", " ", " ", " ", " ", " ", "COPY . /app/", "\n",
         " ", " ", " ", " ", " ", " ", " ", " ", "\n",
         " ", " ", " ", " ", " ", " ", " ", " ", "# Install Python dependencies", "\n",
         " ", " ", " ", " ", " ", " ", " ", " ", "RUN ">>),
       P("install_cmd"),
       L(<<"\n",
         " ", " ", " ", " ", " ", " ", " ", " ", "\n",
         " ", " ", " ", " ", " ", " ", " ", " ", "# Set the default entry command", "\n",
         " ", " ", " ", " ", " ", " ", " ", " ", "CMD [\"python\", \"train.py\"]", "\n",
         " ", " ", " ", " ", " ", " ", " ", " ">>) >>

\* streamlit_app.py, lines 121-144.
AppSlurmTemplate ==
    << L(<<"\n",
         "#!/bin/bash", "\n",
         "#SBATCH ", "--job-name=">>),
       P("job_name"),
       L(<<"\n",
         "#SBATCH ", "--account=", "your_hpc_account", "\n",
         "#SBATCH ", "--partition=", "gpu", "\n",
         "#SBATCH ", "--nodes=", "1", "\n",
         "#SBATCH ", "--ntasks-per-node=", "1", "\n",
         "#SBATCH ", "--cpus-per-task=", "8", "\n",
         "#SBATCH ", "--gres=gpu:">>),
       I("gpu_count"),
       L(<<"\n",
         "#SBATCH ", "--time=">>),
       P("time_limit"),
       L(<<"\n",
         "#SBATCH ", "--output=slurm-", "%j", ".out", "\n",
         "\n",
         "# --- Execution Command ---", "\n",
         "# 1. Assuming 'my_app.sif' has been built from your Docker image.", "\n",
         "# 2. ", "--nv", ": Ensures NVIDIA GPU access", "\n",
         "# 3. --bind: Mounts host data path to '/data' inside the container", "\n",
         "\n",
         "apptainer exec ", "--nv", " --bind ">>),
       P("data_path"),
       L(<<":/data \\", "\n",
         " ", " ", " ", " ", "my_app.sif python /app/train.py \\", "\n",
         " ", " ", " ", " ", "--data_dir /data \\", "\n",
         " ", " ", " ", " ", "--epochs 10", "\n",
         "\n",
         "# Use 'sbatch submit.sh' to run this job.", "\n">>) >>


\* streamlit_app.py, lines 66-70: the options of the selectbox.
base_image_options ==
    << << "nvcr.io/nvidia/pytorch:23.09-py3", " ", "(Recommended)" >>,
       << "python:3.10-slim" >>,
       << "ubuntu:22.04" >> >>

\* streamlit_app.py, lines 81-85.
install_cmd(requirements) ==
    LET req_list == split(requirements)
    IN  IF req_list # << >>
        THEN << "pip install --no-cache-dir " >> \o join(<< " " >>, req_list)
        ELSE << "# No dependencies specified" >>

\* The Dockerfile snippet the section shows on every run.
app_dockerfile_snippet(base_image, requirements) ==
    LET dockerfile_snippet ==
            fstring(AppDockerfileTemplate,
                    [ base_image_split_0 |-> split(base_image)[1],
                      install_cmd |-> install_cmd(requirements) ])
    IN  _code(strip(dockerfile_snippet))

\* What a click on "Generate SLURM Script" of the section shows.
app_slurm_script(job_name, gpu_count, time_limit, data_path) ==
    LET slurm_script ==
            fstring(AppSlurmTemplate,
                    [ job_name |-> job_name, gpu_count |-> gpu_count,
                      time_limit |-> time_limit, data_path |-> data_path ])
    IN  _code(strip(slurm_script))

(* ------------------------------------------------------------------------ *)
(* linux_admin.py and bash_scripting.py: the interactive command generators. *)

\* linux_admin.py, line 73: the default of the home directory input.
HomeDirDefaultTemplate == << L(<< "/home/" >>), P("username") >>

\* linux_admin.py, line 79.
UseraddTemplate ==
    << L(<< "sudo useradd -m -d", " " >>), P("home_dir"), L(<< " ", "-s", " " >>),
       P("shell"), L(<< " " >>), P("username") >>

\* linux_admin.py, line 81.
AdduserTemplate ==
    << L(<< "sudo adduser --home", " " >>), P("home_dir"), L(<< " ", "--shell", " " >>),
       P("shell"), L(<< " " >>), P("username") >>

\* linux_admin.py, line 83.
GroupaddTemplate == << L(<< "sudo groupadd", " " >>), P("groupname") >>

\* linux_admin.py, line 85.
UsermodTemplate ==
    << L(<< "sudo usermod -aG", " " >>), P("groupname"), L(<< " " >>), P("username") >>

\* linux_admin.py, line 87.
IdTemplate == << L(<< "id", " " >>), P("username") >>

\* linux_admin.py, line 89.
PasswdTemplate == << L(<< "sudo passwd", " " >>), P("username") >>

\* linux_admin.py, line 91.
UserdelTemplate == << L(<< "sudo userdel -r", " " >>), P("username") >>

\* linux_admin.py, line 143.
ChmodTemplate == << L(<< "sudo chmod", " " >>), P("perm"), L(<< " " >>), P("path") >>

\* bash_scripting.py, lines 267-271 (the second definition of render(), the
\* one the module ends up with).
UserScriptTemplate ==
    << L(<<"#!/bin/bash", "\n",
         "USER=">>),
       P("uname"),
       L(<<"\n",
         "sudo useradd -m -s /bin/bash \"", "$USER", "\"", "\n",
         "echo \"User ", "$USER", " created\"", "\n">>) >>

\* The code blocks a click on "Show create/add/delete commands" shows.
linux_user_commands(username, home_dir, shell, groupname) ==
    LET env == [ username |-> username, home_dir |-> home_dir, shell |-> shell,
                 groupname |-> groupname ]
    IN  << _code(fstring(UseraddTemplate, env)),
           _code(fstring(AdduserTemplate, env)),
           _code(fstring(GroupaddTemplate, env)),
           _code(fstring(UsermodTemplate, env)),
           _code(fstring(IdTemplate, env)),
           _code(fstring(PasswdTemplate, env)),
           _code(fstring(UserdelTemplate, env)) >>

\* The code block a click on "Show chmod command" shows.
linux_chmod_command(perm, path) ==
    _code(fstring(ChmodTemplate, [ perm |-> perm, path |-> path ]))

\* The code block a click on "Show script for single user creation" shows.
bash_user_script(uname) == _code(fstring(UserScriptTemplate, [ uname |-> uname ]))

(* ------------------------------------------------------------------------ *)
(* The value every input of every generator has when the user leaves it      *)
(* alone: the value= argument of its widget, the first option of a radio or  *)
(* selectbox, and "" for a text_input that is given no value.                *)

GeneratorDefaults ==
    [ generate_dockerfile |->
          [ base_image_version |-> WidgetDefaults.docker_base_tag,
            app_script_name    |-> WidgetDefaults.docker_script_name,
            app_image_name     |-> WidgetDefaults.docker_image_name ],
      generate_slurm_script |->
          [ optimization_type |-> WidgetDefaults.slurm_profile_select,
            nodes             |-> WidgetDefaults.slurm_nodes_t2,
            gpus_per_node     |-> WidgetDefaults.slurm_gpus_t2,
            time              |-> WidgetDefaults.slurm_time_t2,
            project_name      |-> WidgetDefaults.slurm_project_name ],
      tools_container_spec |->
          [ container_type |-> container_types[1],
            base_image     |-> << >>,
            install_libs   |-> << "numpy pandas matplotlib torch torchvision opencv-python" >>,
            entry_cmd      |-> << "python3" >> ],
      tools_slurm_script |->
          [ job_name |-> << "ai_training_job" >>, time |-> << "02:00:00" >>, gpus |-> 1,
            cpus |-> 8, mem |-> << "64G" >>, partition |-> << "gpu" >>,
            script_name |-> << "train.py" >> ],
      app_dockerfile_snippet |->
          [ base_image   |-> base_image_options[1],
            requirements |-> << "transformers", "\n", "datasets", "\n", "accelerate" >> ],
      app_slurm_script |->
          [ job_name |-> << "ai_research_job" >>, gpu_count |-> 1,
            time_limit |-> << "04:00:00" >>,
            data_path |-> << "/fs/scratch/user/data", "/" >> ],
      linux_user_commands |->
          [ username  |-> << "hpcstudent" >>,
            home_dir  |-> fstring(HomeDirDefaultTemplate, [ username |-> << "hpcstudent" >> ]),
            shell     |-> << "/bin/bash" >>,
            groupname |-> << "cpugroup" >> ],
      linux_chmod_command |-> [ perm |-> << "770" >>, path |-> << "/tmp/example" >> ],
      bash_user_script |-> [ uname |-> << "hpcuser" >> ] ]

\* The limits of the number inputs and of the slider.
WithinLimits(fn, name, n) ==
    CASE fn = "generate_slurm_script" /\ name = "nodes" -> n >= NODES_MIN
      [] fn = "generate_slurm_script" /\ name = "gpus_per_node" -> n \in GPUS_MIN .. GPUS_MAX
      [] fn = "tools_slurm_script" /\ name = "gpus" -> n \in 1 .. 8
      [] fn = "tools_slurm_script" /\ name = "cpus" -> n \in 1 .. 64
      [] fn = "app_slurm_script" /\ name = "gpu_count" -> n \in 1 .. 8

(* ------------------------------------------------------------------------ *)
(* The state machine.                                                         *)

Sessions == DOMAIN widgets

\* Nothing called yet.
NoCall == [fn |-> "none", args |-> <<>>]

\* A call that returned v.
Returned(v) == [raised |-> "none", value |-> v]

NoReturn == Returned(<<>>)

NoRef == [call |-> NoCall, ret |-> NoReturn]

\* The arguments generate_slurm_script gets from the widget values w.
SlurmArgs(w) ==
    [ optimization_type |-> w.slurm_profile_select,
      nodes             |-> w.slurm_nodes_t2,
      gpus_per_node     |-> w.slurm_gpus_t2,
      time              |-> w.slurm_time_t2,
      project_name      |-> w.slurm_project_name ]

NoClick == [clicked |-> FALSE, args |-> SlurmArgs(WidgetDefaults)]

\* The process after import, before any session has opened, with S the
\* sessions that may open.
InitWith(S) ==
    /\ module = ModuleGlobals
    /\ call = NoCall
    /\ ret = NoReturn
    /\ ref = NoRef
    /\ connected = {}
    /\ widgets = [s \in S |-> WidgetDefaults]
    /\ session_state = [s \in S |-> NewSessionState]
    /\ page = [s \in S |-> BlankPage]
    /\ last_click = [s \in S |-> NoClick]

\* A run of render() in session s over the widget values w.  Neither
\* generator nor render() assigns a module-level name.
Rerun(s, w, clicked) ==
    LET r == RunRender(module, w, session_state[s], clicked)
    IN  /\ widgets' = [widgets EXCEPT ![s] = w]
        /\ session_state' = SaveSessionState(session_state, s, r.session_state)
        /\ page' = [page EXCEPT ![s] = r.page]
        /\ UNCHANGED << module, call, ret, ref >>

\* A browser opens the page: the first run of render(), every widget at its
\* default.
Connect(s) ==
    /\ s \notin connected
    /\ connected' = connected \cup {s}
    /\ Rerun(s, widgets[s], FALSE)
    /\ UNCHANGED last_click

\* The user changes the widget with the given key to v: a run in which
\* st.button returns False.
ChangeInput(s, key, v) ==
    /\ s \in connected
    /\ widgets[s][key] # v
    /\ Rerun(s, [widgets[s] EXCEPT ![key] = v], FALSE)
    /\ UNCHANGED << connected, last_click >>

\* The user clicks "Generate SLURM Script": a run in which st.button returns
\* True.
ClickGenerate(s) ==
    /\ s \in connected
    /\ Rerun(s, widgets[s], TRUE)
    /\ last_click' = [last_click EXCEPT ![s] = [clicked |-> TRUE, args |-> SlurmArgs(widgets[s])]]
    /\ UNCHANGED connected

\* The values the model lets the user give each widget; the number inputs
\* stay within the min_value and max_value of the widget.
UiChoices ==
    [ docker_base_tag      |-> { << "24.08-py3" >> },
      docker_script_name   |-> { << "train_llm_model.py" >> },
      docker_image_name    |-> { DEFAULT_IMAGE_NAME, << "my-cv-model" >> },
      slurm_project_name   |-> { << "my-llm-finetune" >>, << "my-cv-model" >> },
      slurm_nodes_t2       |-> NODES_MIN .. MaxNodes,
      slurm_gpus_t2        |-> { n \in GPUS_MIN .. GPUS_MAX : n \in {0, 4} },
      slurm_time_t2        |-> { << "12:00:00" >>, << "01:00:00" >> },
      slurm_profile_select |-> { optimization_options[i] : i \in DOMAIN optimization_options } ]

Init == InitWith({1})

Open == \E s \in Sessions : Connect(s)

Change == \E s \in Sessions : \E key \in DOMAIN UiChoices : \E v \in UiChoices[key] : ChangeInput(s, key, v)

Click == \E s \in Sessions : ClickGenerate(s)

Next == Open \/ Change \/ Click

\* One session of the local_to_hpc page.
Spec == Init /\ [][Next]_vars

\* Two sessions of the local_to_hpc page, each changing its project name and
\* its profile and clicking Generate.
SessionKeys == { "slurm_project_name", "slurm_profile_select" }

InitSessions == InitWith({1, 2})

ChangeShared == \E s \in Sessions : \E key \in SessionKeys : \E v \in UiChoices[key] : ChangeInput(s, key, v)

NextSessions == Open \/ ChangeShared \/ Click

SpecSessions == InitSessions /\ [][NextSessions]_vars

(* Direct calls of the generator functions, as a caller other than render()  *)
(* may make them: the arguments are not limited to what the widgets allow.    *)

UNKNOWN_PROFILE == << "does-not-exist" >>

OptimizationTypeArgs == UiChoices.slurm_profile_select \cup { UNKNOWN_PROFILE }

NodesArgs == NODES_MIN .. MaxNodes

\* The ends and the default of the widget's range, 1, and one above max_value.
GpusArgs == { GPUS_MIN, 1, 4, GPUS_MAX, GPUS_MAX + 1 }

\* The values of the widget, and one with blanks at both ends.
TimeArgs == UiChoices.slurm_time_t2 \cup { << " ", "00:10:00", " " >> }

\* A plain name, and one with blanks at both ends and shell syntax inside.
ProjectNameArgs == { << "my-llm-finetune" >>, << " ", "a", "/", "b", ":", "$(id)", " " >> }

BaseImageVersionArgs == { << "24.08-py3" >>, << "23.09-py3" >> }

AppScriptNameArgs == { << "train_llm_model.py" >>, << " ", "my script.py" >> }

AppImageNameArgs == { DEFAULT_IMAGE_NAME, << "my-cv-model" >> }

SlurmCall(t, n, gp, tm, p) ==
    /\ call' = [ fn   |-> "generate_slurm_script",
                 args |-> [ optimization_type |-> t, nodes |-> n, gpus_per_node |-> gp,
                            time |-> tm, project_name |-> p ] ]
    /\ ret' = Returned(generate_slurm_script(module, t, n, gp, tm, p))
    /\ UNCHANGED << module, connected, widgets, session_state, page, last_click >>

DockerfileCall(tag, script, image) ==
    /\ call' = [ fn   |-> "generate_dockerfile",
                 args |-> [ base_image_version |-> tag, app_script_name |-> script,
                            app_image_name |-> image ] ]
    /\ ret' = Returned(generate_dockerfile(tag, script, image))
    /\ UNCHANGED << module, connected, widgets, session_state, page, last_click >>

(* The generators of the other pages run on a click of their button (the     *)
(* Dockerfile snippet of streamlit_app.py on every run) over the values      *)
(* their widgets hold.                                                        *)

ToolsBaseImageArgs ==
    { GeneratorDefaults.tools_container_spec.base_image,
      << "pytorch/pytorch:2.1.0-cuda11.8-cudnn8-runtime" >>,
      << "python:3.10-slim" >> }

\* The text area takes several lines: the default, a list on one line, a
\* list with one library per line, and one whose second line reads as an
\* instruction.
ToolsInstallLibsArgs ==
    { GeneratorDefaults.tools_container_spec.install_libs,
      << "numpy pandas" >>,
      << "numpy", "\n", "pandas" >>,
      << "numpy", "\n", "FROM ", "scratch" >> }

ToolsJobNameArgs == { GeneratorDefaults.tools_slurm_script.job_name, << " ", "my job", " " >> }

ToolsTimeArgs == { GeneratorDefaults.tools_slurm_script.time, << " ", "00:10:00", " " >> }

ToolsScriptNameArgs ==
    { GeneratorDefaults.tools_slurm_script.script_name, << " ", "my train.py", " " >> }

AppRequirementsArgs ==
    { GeneratorDefaults.app_dockerfile_snippet.requirements, << >>,
      << " ", "numpy", " ", " ", "pandas", "\n" >> }

AppJobNameArgs == { GeneratorDefaults.app_slurm_script.job_name, << " ", "my job", " " >> }

AppTimeLimitArgs == { GeneratorDefaults.app_slurm_script.time_limit, << " ", "00:10:00", " " >> }

AppDataPathArgs ==
    { GeneratorDefaults.app_slurm_script.data_path, << " ", "/data", "/", " " >> }

UsernameArgs == { GeneratorDefaults.linux_user_commands.username, << >> }

ChmodPathArgs == { GeneratorDefaults.linux_chmod_command.path, << "/tmp/my dir", " " >> }

UnameArgs == { GeneratorDefaults.bash_user_script.uname, << "hpc user", " " >> }

Called(fn, args, r) ==
    /\ call' = [ fn |-> fn, args |-> args ]
    /\ ret' = r
    /\ UNCHANGED << module, connected, widgets, session_state, page, last_click >>

ClickToolsContainer ==
    \E container_type \in { container_types[i] : i \in DOMAIN container_types },
       base_image \in ToolsBaseImageArgs, install_libs \in ToolsInstallLibsArgs,
       outcome \in CopyButtonOutcomes :
        LET entry_cmd == GeneratorDefaults.tools_container_spec.entry_cmd
        IN  Called("tools_container_spec",
                   [ container_type |-> container_type, base_image |-> base_image,
                     install_libs |-> install_libs, entry_cmd |-> entry_cmd ],
                   [ raised |-> outcome,
                     value  |-> tools_container_spec(container_type, base_image,
                                                     install_libs, entry_cmd) ]) /\ UNCHANGED ref

ClickToolsSlurm ==
    \E job_name \in ToolsJobNameArgs, time \in ToolsTimeArgs, gpus \in { 1, 8 },
       script_name \in ToolsScriptNameArgs, outcome \in CopyButtonOutcomes :
        LET d == GeneratorDefaults.tools_slurm_script
        IN  Called("tools_slurm_script",
                   [ job_name |-> job_name, time |-> time, gpus |-> gpus, cpus |-> d.cpus,
                     mem |-> d.mem, partition |-> d.partition, script_name |-> script_name ],
                   [ raised |-> outcome,
                     value  |-> tools_slurm_script(job_name, time, gpus, d.cpus, d.mem,
                                                   d.partition, script_name) ]) /\ UNCHANGED ref

ShowAppDockerfile ==
    \E base_image \in { base_image_options[i] : i \in DOMAIN base_image_options },
       requirements \in AppRequirementsArgs :
        Called("app_dockerfile_snippet",
               [ base_image |-> base_image, requirements |-> requirements ],
               Returned(app_dockerfile_snippet(base_image, requirements))) /\ UNCHANGED ref

ClickAppSlurm ==
    \E job_name \in AppJobNameArgs, gpu_count \in { 1, 8 }, time_limit \in AppTimeLimitArgs,
       data_path \in AppDataPathArgs :
        Called("app_slurm_script",
               [ job_name |-> job_name, gpu_count |-> gpu_count, time_limit |-> time_limit,
                 data_path |-> data_path ],
               Returned(app_slurm_script(job_name, gpu_count, time_limit, data_path))) /\ UNCHANGED ref

ClickLinuxUser ==
    \E username \in UsernameArgs :
        LET d == GeneratorDefaults.linux_user_commands
        IN  Called("linux_user_commands",
                   [ username |-> username, home_dir |-> d.home_dir, shell |-> d.shell,
                     groupname |-> d.groupname ],
                   Returned(linux_user_commands(username, d.home_dir, d.shell, d.groupname))) /\ UNCHANGED ref

ClickLinuxChmod ==
    \E path \in ChmodPathArgs :
        LET perm == GeneratorDefaults.linux_chmod_command.perm
        IN  Called("linux_chmod_command", [ perm |-> perm, path |-> path ],
                   Returned(linux_chmod_command(perm, path))) /\ UNCHANGED ref

ClickBashUser ==
    \E uname \in UnameArgs :
        Called("bash_user_script", [ uname |-> uname ], Returned(bash_user_script(uname))) /\ UNCHANGED ref

InitCall == InitWith({})

CallSlurm ==
    \E t \in OptimizationTypeArgs, n \in NodesArgs, gp \in GpusArgs, tm \in TimeArgs, p \in ProjectNameArgs :
        SlurmCall(t, n, gp, tm, p) /\ UNCHANGED ref

CallDockerfile ==
    \E tag \in BaseImageVersionArgs, script \in AppScriptNameArgs, image \in AppImageNameArgs :
        DockerfileCall(tag, script, image) /\ UNCHANGED ref

NextCall ==
    \/ CallSlurm
    \/ CallDockerfile
    \/ ClickToolsContainer
    \/ ClickToolsSlurm
    \/ ShowAppDockerfile
    \/ ClickAppSlurm
    \/ ClickLinuxUser
    \/ ClickLinuxChmod
    \/ ClickBashUser

SpecCall == InitCall /\ [][NextCall]_vars

(* Calls of generate_slurm_script that vary what the job name is built     *)
(* from: the profile and the project name.                                   *)

\* The names of ProjectNameArgs, one that has '/' and ':' and no blank, and
\* one that has an underscore of its own.
JobProjectNameArgs ==
    ProjectNameArgs \cup { << "team", "/", "llm", ":", "v2" >>, << "my_project" >> }

CallSlurmNamed ==
    \E t \in OptimizationTypeArgs, n \in NodesArgs, gp \in GpusArgs, p \in JobProjectNameArgs :
        SlurmCall(t, n, gp, WidgetDefaults.slurm_time_t2, p) /\ UNCHANGED ref

NextJobName == CallSlurmNamed \/ CallDockerfile

SpecJobName == InitCall /\ [][NextJobName]_vars

(* Pairs of calls: any earlier call and its outcome may be kept in ref while  *)
(* further calls are made.                                                     *)

Remember == ref' \in { ref, [call |-> call, ret |-> ret] }

PairTypes == { MULTI_NODE_DDP, LORA_PEFT, CPU_VALIDATION }

PairSlurm ==
    \E t \in PairTypes, n \in NodesArgs, gp \in {0, 4}, p \in ProjectNameArgs :
        SlurmCall(t, n, gp, << "12:00:00" >>, p) /\ Remember

PairDockerfile ==
    \E tag \in BaseImageVersionArgs, script \in AppScriptNameArgs, image \in AppImageNameArgs :
        DockerfileCall(tag, script, image) /\ Remember

NextPair == PairSlurm \/ PairDockerfile

SpecPair == InitCall /\ [][NextPair]_vars

(* ------------------------------------------------------------------------ *)
(* Properties.                                                                *)

Has(text, tok) == \E i \in DOMAIN text : text[i] = tok

\* tok is directly followed by the tokens of value.
Follows(text, tok, value) ==
    \E i \in DOMAIN text :
        /\ text[i] = tok
        /\ i + Len(value) <= Len(text)
        /\ SubSeq(text, i + 1, i + Len(value)) = value

DeclaredProfiles == { optimization_options[i] : i \in DOMAIN optimization_options }

IsSlurmCall == call.fn = "generate_slurm_script"

IsDockerfileCall == call.fn = "generate_dockerfile"

\* The script generate_slurm_script returns for the arguments a when the
\* module namespace is as imported.
ScriptOf(a) ==
    generate_slurm_script(ModuleGlobals, a.optimization_type, a.nodes, a.gpus_per_node,
                          a.time, a.project_name)

\* C1, as claimed: generate_slurm_script given an optimization_type outside
\* the declared profile names fails with NotFoundError and produces no
\* script.
C1_UnknownProfileRaisesNotFound ==
    (IsSlurmCall /\ call.args.optimization_type \notin DeclaredProfiles)
        => (ret.raised = "NotFoundError" /\ ret.value = <<>>)

\* C1, amended: generate_slurm_script given an optimization_type outside the
\* declared profile names raises nothing and returns the script of its else
\* branch: part by part the script of "Default CPU Validation Job" for the
\* same other arguments, with the supplied name in the header and in the job
\* name.
C1_UnknownProfileRendersDefault ==
    (IsSlurmCall /\ call.args.optimization_type \notin DeclaredProfiles)
        => /\ ret.raised = "none"
           /\ ret.value =
                fstring(SlurmScriptTemplate,
                        [ SlurmNamespace(ModuleGlobals, CPU_VALIDATION, call.args.nodes,
                                         call.args.gpus_per_node, call.args.time,
                                         call.args.project_name)
                          EXCEPT !.optimization_type = call.args.optimization_type,
                                 !.optimization_type_replace =
                                     JobNameSuffix(call.args.optimization_type) ])

C1_Witness ==
    /\ IsSlurmCall
    /\ call.args.optimization_type = UNKNOWN_PROFILE
    /\ Has(ret.value, "# --- Default CPU Validation Job ---")
    /\ Follows(ret.value, "# SLURM Job Script: ", UNKNOWN_PROFILE)

\* C2, as claimed: generate_slurm_script given gpus_per_node above the
\* declared maximum of 8 raises ValidationError and produces no script.
C2_AboveMaxRaisesValidationError ==
    (IsSlurmCall /\ call.args.gpus_per_node > GPUS_MAX)
        => (ret.raised = "ValidationError" /\ ret.value = <<>>)

\* C2, amended: generate_slurm_script checks no range.  Given gpus_per_node
\* above 8 it raises nothing and returns a script, which for the Multi-Node
\* DDP profile requests that many GPUs per node (--gpus-per-node=9) and for
\* the Single-Node profile and the Custom profile that many GPUs (--gpus=9).
C2_AboveMaxIsRendered ==
    (IsSlurmCall /\ call.args.gpus_per_node > GPUS_MAX)
        => /\ ret.raised = "none"
           /\ ret.value # <<>>
           /\ call.args.optimization_type = MULTI_NODE_DDP
                => Follows(ret.value, "--gpus-per-node=", Str(call.args.gpus_per_node))
           /\ call.args.optimization_type \in { SINGLE_NODE, CUSTOM_JOB }
                => Follows(ret.value, "--gpus=", Str(call.args.gpus_per_node))

C2_Witness ==
    /\ IsSlurmCall
    /\ call.args.gpus_per_node = GPUS_MAX + 1
    /\ call.args.optimization_type = MULTI_NODE_DDP
    /\ Follows(ret.value, "--gpus-per-node=", << "9" >>)

\* C3, as claimed: in every session the script on the page is the script of
\* the widget values current in that run; no script of an earlier run is
\* shown.
C3_ShownIsRenderOfCurrentInputs ==
    \A s \in connected :
        Truthy(page[s].script) => page[s].script.v = ScriptOf(SlurmArgs(widgets[s]))

\* C3, amended: the script is kept in the session state.  In every session
\* the script on the page is the one generated at the session's most recent
\* Generate click, from the widget values of that click, and it stays on the
\* page in later runs whatever the widgets hold by then; before the first
\* click no script is shown.
C3_ShownIsRenderOfLastClick ==
    \A s \in Sessions :
        /\ Truthy(page[s].script)
             => (last_click[s].clicked /\ page[s].script.v = ScriptOf(last_click[s].args))
        /\ (s \in connected /\ last_click[s].clicked) => Truthy(page[s].script)

\* A script generated for other widget values than the session has now is on
\* the page.
C3_Witness ==
    /\ Truthy(page[1].script)
    /\ SlurmArgs(widgets[1]) # last_click[1].args
    /\ page[1].script.v # ScriptOf(SlurmArgs(widgets[1]))

\* What belongs to session s.
SessionView(s) == << widgets[s], session_state[s], page[s], last_click[s] >>

\* C4: whatever two sessions do in whatever order, the script a session
\* shows and offers for download is the one generated from that session's own
\* widget values at its own last click, and no run writes a module-level name
\* or anything of another session.
C4_SessionsIsolated ==
    /\ [](\A s \in Sessions :
            Truthy(page[s].script)
                => /\ page[s].script.v = ScriptOf(last_click[s].args)
                   /\ page[s].download.data = page[s].script.v)
    /\ [][ /\ module' = module
           /\ \A s \in Sessions :
                SessionView(s)' # SessionView(s)
                    => \A t \in Sessions \ {s} : SessionView(t)' = SessionView(t) ]_vars

\* Both sessions show a script, each for its own project name.
C4_Witness ==
    /\ connected = {1, 2}
    /\ Truthy(page[1].script) /\ Truthy(page[2].script)
    /\ widgets[1].slurm_project_name # widgets[2].slurm_project_name
    /\ last_click[1].args.project_name # last_click[2].args.project_name
    /\ page[1].script # page[2].script

DifferOnlyInUnreferenced(a, b) ==
    /\ a.fn = b.fn
    /\ \/ /\ a.fn = "generate_dockerfile"
          /\ a.args.base_image_version = b.args.base_image_version
          /\ a.args.app_script_name = b.args.app_script_name
       \/ /\ a.fn = "generate_slurm_script"
          /\ a.args.optimization_type = b.args.optimization_type
          /\ a.args.optimization_type \in { LORA_PEFT, CPU_VALIDATION }
          /\ a.args.time = b.args.time
          /\ a.args.project_name = b.args.project_name

RunCommandTemplate(optimization_type) ==
    IF optimization_type = MULTI_NODE_DDP THEN DdpRunCommand
    ELSE IF optimization_type = SINGLE_NODE THEN SingleNodeRunCommand
    ELSE IF optimization_type = LORA_PEFT THEN LoraRunCommand
    ELSE IF optimization_type = CUSTOM_JOB THEN CustomRunCommand
    ELSE DefaultRunCommand

\* The literal text of a template as written, its replacement fields left out.
LiteralText(tpl) == Join([i \in DOMAIN tpl |-> tpl[i].text])

\* The literal text of the script template as written in the source, with the
\* literal text of the selected run_command in the place of {run_command}.
SlurmSourceText(optimization_type) ==
    Join([i \in DOMAIN SlurmScriptTemplate |->
            IF SlurmScriptTemplate[i].name = "run_command"
            THEN LiteralText(RunCommandTemplate(optimization_type))
            ELSE SlurmScriptTemplate[i].text])

\* The arguments are ones the page can supply: a declared profile and number
\* inputs within their limits.
ValidSlurmCall ==
    /\ IsSlurmCall
    /\ call.args.optimization_type \in DeclaredProfiles
    /\ call.args.nodes >= NODES_MIN
    /\ call.args.gpus_per_node \in GPUS_MIN .. GPUS_MAX

\* C8: for every declared profile and every valid set of inputs the render
\* succeeds and returns a non-empty text in which no replacement field of the
\* templates is left as written; so does generate_dockerfile.
C8_NoPlaceholderRemains ==
    (ValidSlurmCall \/ IsDockerfileCall)
        => /\ ret.raised = "none"
           /\ ret.value # <<>>
           /\ \A i \in DOMAIN ret.value :
                \A n \in DOMAIN FieldSource : ret.value[i] # FieldSource[n]

\* The Custom profile at the widgets' default values.
C8_Witness ==
    /\ ValidSlurmCall
    /\ call.args = [SlurmArgs(WidgetDefaults) EXCEPT !.optimization_type = CUSTOM_JOB]
    /\ Follows(ret.value, "--gpus=", << "4" >>)
    /\ Follows(ret.value, "--job-name=", << "my-llm-finetune", "_", "Custom", "User-Defined", "_", "Job" >>)

\* The shell's and SLURM's tokens of a text, in order.
ShellTokensOf(text) == SelectSeq(text, LAMBDA t : t \in ShellTokens)

\* C9: for every profile and every input, the shell and SLURM tokens that
\* are not parameters ($SIF_FILE_PATH, $SLURM_JOB_ID, $SLURM_JOB_NODELIST,
\* $(date), %j) stand in the script exactly as, as often as, and in the order
\* in which the selected template has them.
C9_ShellTokensVerbatim ==
    IsSlurmCall
        => ShellTokensOf(ret.value) = ShellTokensOf(SlurmSourceText(call.args.optimization_type))

C9_Witness ==
    /\ IsSlurmCall
    /\ call.args.optimization_type = MULTI_NODE_DDP
    /\ Has(call.args.project_name, "$(id)")
    /\ Has(ret.value, "$(id)")
    /\ ShellTokensOf(ret.value) =
         << "%j", "%j", "$(date)", "$SIF_FILE_PATH", "$SIF_FILE_PATH", "$SLURM_JOB_NODELIST",
            "$SIF_FILE_PATH", "$SLURM_JOB_ID", "$(date)" >>

\* The call in hand is a generator run on the declared defaults of its inputs.
AtDefaults == call.fn # "none" /\ call.args = GeneratorDefaults[call.fn]

\* The inputs that are numbers.
NumberInputs == { "nodes", "gpus_per_node", "gpus", "cpus", "gpu_count" }

\* C7: whichever generator runs with every input left at its declared
\* default, the render succeeds (nothing is raised, the text is not empty),
\* every text default is non-empty and every number default lies within the
\* limits of its widget.
C7_DefaultsRenderAndAreNonEmpty ==
    AtDefaults =>
        /\ ret.raised = "none"
        /\ ret.value # << >>
        /\ \A name \in DOMAIN call.args :
              IF name \in NumberInputs
              THEN WithinLimits(call.fn, name, call.args[name])
              ELSE call.args[name] # << >>

\* The profiles whose branch of generate_slurm_script uses the time argument.
TimeReferencing == { MULTI_NODE_DDP, SINGLE_NODE, LORA_PEFT, CUSTOM_JOB }

\* C10: in the script of each of the three SLURM generators, every text
\* parameter (project name, job name, time limit, memory, partition, data
\* path, script name) stands exactly as supplied, blanks at its ends
\* included, between the template text before and after each place that
\* references it.
C10_TextParametersVerbatim ==
    LET a == call.args
        v == ret.value
    IN  /\ IsSlurmCall =>
              /\ Follows(v, "# Targeting MBZUAI AI Research Project: ", a.project_name \o << "\n" >>)
              /\ Follows(v, "--job-name=", a.project_name \o << "_" >>)
              /\ Follows(v, "SIF_FILE_PATH=\"/global/apps/containers/",
                         a.project_name \o << "-v1.0.sif" >>)
              /\ a.optimization_type \in TimeReferencing
                    => Follows(v, "--time=", a.time \o << "\n" >>)
        /\ call.fn = "app_slurm_script" =>
              /\ Follows(v, "--job-name=", a.job_name \o << "\n" >>)
              /\ Follows(v, "--time=", a.time_limit \o << "\n" >>)
              /\ Follows(v, " --bind ", a.data_path \o << ":/data \\" >>)
        /\ call.fn = "tools_slurm_script" =>
              /\ Follows(v, "--job-name=", a.job_name \o << "\n" >>)
              /\ Follows(v, "--time=", a.time \o << "\n" >>)
              /\ Follows(v, "--mem=", a.mem \o << "\n" >>)
              /\ Follows(v, "--partition=", a.partition \o << "\n" >>)
              /\ Follows(v, "python3 ", a.script_name \o << "\n" >>)

\* The Tools page's generator, whose text goes through dedent, run on a job
\* name and a script name that have blanks at both ends.
C10_Witness ==
    /\ call.fn = "tools_slurm_script"
    /\ call.args.job_name = << " ", "my job", " " >>
    /\ call.args.script_name = << " ", "my train.py", " " >>
    /\ Follows(ret.value, "python3 ", << " ", "my train.py", " ", "\n" >>)
    /\ Head(ret.value) = "\n"

\* generate_slurm_script is called for the LoRA profile with every other
\* input at the default of its widget.
LoraAtDefaults ==
    /\ IsSlurmCall
    /\ call.args = [ SlurmArgs(WidgetDefaults) EXCEPT !.optimization_type = LORA_PEFT ]

\* C11 (as stated): the LoRA script rendered from the defaults contains
\* --gpus=1, --time=01:00:00 and the token $SLURM_JOB_ID.
C11_LoraDefaultsAsStated ==
    LoraAtDefaults =>
        /\ Follows(ret.value, "--gpus=", << "1" >>)
        /\ Follows(ret.value, "--time=", << "01:00:00" >>)
        /\ Has(ret.value, "$SLURM_JOB_ID")

\* C11 (amended): the LoRA script rendered from the defaults contains
\* --gpus=1 and --time=12:00:00, the default of the time widget; of the
\* shell's variables it has $SIF_FILE_PATH, unsubstituted, and it has no
\* $SLURM_JOB_ID.
C11_LoraDefaultsRendered ==
    LoraAtDefaults =>
        /\ Follows(ret.value, "--gpus=", << "1" >>)
        /\ Follows(ret.value, "--time=", << "12:00:00", "\n" >>)
        /\ Has(ret.value, "$SIF_FILE_PATH")
        /\ ~Has(ret.value, "$SLURM_JOB_ID")

C11_Witness ==
    /\ LoraAtDefaults
    /\ call.args.time = << "12:00:00" >>
    /\ call.args.gpus_per_node = 4
    /\ Has(ret.value, "# --- Low-Memory PEFT/LoRA Setup ---")

\* A line without the blanks it starts with.
Unindented(line) == SubSeq(line, Indent(line) + 1, Len(line))

\* The lines of a text whose first token, blanks aside, is tok.
LinesStarting(text, tok) ==
    LET lines == SplitLines(text)
    IN  { i \in DOMAIN lines : Unindented(lines[i]) # << >> /\ Head(Unindented(lines[i])) = tok }

\* The lines of a text that read RUN pip install ...
PipInstallLines(text) ==
    LET lines == SplitLines(text)
    IN  { i \in LinesStarting(text, "RUN ") :
            /\ Len(Unindented(lines[i])) >= 2
            /\ Unindented(lines[i])[2] \in { "pip install ", "pip install --no-cache-dir " } }

\* The Tools page has generated a Dockerfile.
IsToolsDockerfileCall ==
    call.fn = "tools_container_spec" /\ call.args.container_type = << "Dockerfile" >>

\* C12: for every base image and library list, the Dockerfile of the Tools
\* page and the Dockerfile snippet of the workflow section have exactly one
\* FROM line, which names the supplied base image, and exactly one
\* RUN pip install line, which lists the supplied libraries.
C12_OneFromOnePipInstall ==
    LET lines == SplitLines(ret.value)
        from == LinesStarting(ret.value, "FROM ")
        pip == PipInstallLines(ret.value)
    IN  /\ IsToolsDockerfileCall =>
              /\ Cardinality(from) = 1
              /\ \A i \in from : Unindented(lines[i]) = << "FROM " >> \o call.args.base_image
              /\ Cardinality(pip) = 1
              /\ \A i \in pip :
                    Unindented(lines[i]) = << "RUN ", "pip install " >> \o call.args.install_libs
        /\ call.fn = "app_dockerfile_snippet" =>
              /\ Cardinality(from) = 1
              /\ \A i \in from :
                    Unindented(lines[i]) = << "FROM " >> \o split(call.args.base_image)[1]
              /\ Cardinality(pip) = 1
              /\ \A i \in pip :
                    Unindented(lines[i]) =
                        << "RUN ", "pip install --no-cache-dir " >>
                            \o join(<< " " >>, split(call.args.requirements))

\* The options by which a script asks SLURM for GPUs.
GpuDirectives == { "--gpus=", "--gpus-per-node=", "--gres=gpu:" }

\* C13: with 0 GPUs per node the script of every declared profile is a
\* CPU-only job: it has no directive that requests GPUs and apptainer is not
\* given --nv.
C13_ZeroGpusIsCpuOnly ==
    ( /\ IsSlurmCall
      /\ call.args.optimization_type \in DeclaredProfiles
      /\ call.args.gpus_per_node = 0 )
        => /\ \A d \in GpuDirectives : ~Has(ret.value, d)
           /\ ~Has(ret.value, "--nv")

RECURSIVE UpTo(_, _)
\* The tokens of a text before its first token stop.
UpTo(text, stop) ==
    IF text = << >> \/ Head(text) = stop THEN << >>
    ELSE << Head(text) >> \o UpTo(Tail(text), stop)

\* The tokens between the first token tok of a text and the next token stop.
Between(text, tok, stop) ==
    LET at == { i \in DOMAIN text : text[i] = tok }
    IN  IF at = {} THEN << >>
        ELSE UpTo(SubSeq(text, Min(at) + 1, Len(text)), stop)

\* The SIF file a script looks for and runs under /global/apps/containers/.
ScriptSif(script) == Between(script, "SIF_FILE_PATH=\"/global/apps/containers/", "\" ")

\* The SIF file the apptainer build command writes.
BuildSif(commands) == Between(commands, "apptainer build ", " docker://")

\* The SIF file the mv command moves to /global/apps/containers/.
MovedSif(commands) == Between(commands, "# mv ", " /global/apps/containers/")

\* The session shows a script generated for a project name that is also the
\* image name its container tab has now.
SameNameInBothTabs(s) ==
    /\ s \in connected
    /\ Truthy(page[s].script)
    /\ last_click[s].args.project_name = widgets[s].docker_image_name

\* C14: when the image name of the container tab and the project name of the
\* SLURM tab are the same name, the SIF file the script checks for and runs
\* is the SIF file the apptainer build and mv commands produce.
C14_SifNameAgrees ==
    \A s \in Sessions :
        SameNameInBothTabs(s) =>
            /\ ScriptSif(page[s].script.v) = BuildSif(page[s].apptainer_commands)
            /\ ScriptSif(page[s].script.v) = MovedSif(page[s].apptainer_commands)

\* What st.session_state.generated_script_t2 holds in session s (None while
\* the key does not exist).
Stored(s) ==
    IF "generated_script_t2" \in DOMAIN session_state[s]
    THEN session_state[s].generated_script_t2
    ELSE None

\* C15: a rerun without a click of Generate (the session opens, an input or
\* the profile changes) leaves the stored script as it was; a rerun with a
\* click replaces it by generate_slurm_script of the profile, nodes, GPUs,
\* time and project name the widgets hold at that click; so the stored
\* script is always none or the render of the most recent click's inputs.
C15_StoredChangesOnlyOnClick ==
    /\ [](\A s \in Sessions :
            \/ Stored(s) = None
            \/ last_click[s].clicked /\ Stored(s) = Some(ScriptOf(last_click[s].args)))
    /\ [][\A s \in Sessions :
            /\ last_click'[s] = last_click[s] => Stored(s)' = Stored(s)
            /\ last_click'[s] # last_click[s]
                 => Stored(s)' = Some(ScriptOf(SlurmArgs(widgets[s])))]_vars

\* A second click has replaced a script, and the profile and the node count
\* have been changed since without a click.
C15_Witness ==
    /\ last_click[1].clicked
    /\ last_click[1].args.project_name = << "my-cv-model" >>
    /\ last_click[1].args.optimization_type = CUSTOM_JOB
    /\ Stored(1) = Some(ScriptOf(last_click[1].args))
    /\ widgets[1].slurm_profile_select = LORA_PEFT
    /\ widgets[1].slurm_nodes_t2 # last_click[1].args.nodes

\* The project name in a download file name <project>_job.sh.
DownloadProject(file_name) == UpTo(file_name, "_job.sh")

\* C16: whenever a script is offered for download, the project name of the
\* download file name is the project name in the job name and in the SIF
\* path of the script offered, after any changes of inputs and clicks.
C16_DownloadNameMatchesScript ==
    \A s \in Sessions :
        page[s].download.shown =>
            LET project == DownloadProject(page[s].download.file_name)
                script == page[s].download.data
            IN  /\ Follows(script, "--job-name=", project \o << "_" >>)
                /\ ScriptSif(script) = project \o << "-v1.0.sif" >>

\* The page of session s shows the script and the download button.
ScriptAndDownloadShown(s) == Truthy(page[s].script) /\ page[s].download.shown

\* C17: before the first click of Generate a session shows neither a script
\* nor a download button; the run of a click shows both, and once a script
\* is stored every later run of the session shows both, clicked or not.
C17_ShownFromFirstClickOn ==
    /\ [](\A s \in Sessions :
            ~last_click[s].clicked => ~Truthy(page[s].script) /\ ~page[s].download.shown)
    /\ [][\A s \in Sessions :
            (Truthy(Stored(s)) \/ last_click'[s].clicked)
                => Truthy(page'[s].script) /\ page'[s].download.shown]_vars

\* Both are on the page in a run after the click: the time and the GPU count
\* were changed since.
C17_Witness ==
    /\ ScriptAndDownloadShown(1)
    /\ last_click[1].clicked
    /\ widgets[1].slurm_time_t2 # last_click[1].args.time
    /\ widgets[1].slurm_gpus_t2 # last_click[1].args.gpus_per_node
    /\ page[1].download.data = page[1].script.v

\* The number of times a token stands in a text.
Count(text, tok) == Cardinality({ i \in DOMAIN text : text[i] = tok })

\* C18: the script has one --nodes directive; it carries the supplied node
\* count for the Multi-Node DDP and Custom profiles and 1 for the
\* Single-Node, LoRA and CPU-validation profiles, whatever count was
\* supplied.
C18_NodesDirective ==
    IsSlurmCall =>
        LET t == call.args.optimization_type
        IN  /\ Count(ret.value, "--nodes=") = 1
            /\ t \in { MULTI_NODE_DDP, CUSTOM_JOB }
                 => Follows(ret.value, "--nodes=", Str(call.args.nodes) \o << "\n" >>)
            /\ t \in { SINGLE_NODE, LORA_PEFT, CPU_VALIDATION }
                 => Follows(ret.value, "--nodes=", << "1", "\n" >>)

\* The Single-Node profile asked for two nodes.
C18_Witness ==
    /\ IsSlurmCall
    /\ call.args.optimization_type = SINGLE_NODE
    /\ call.args.nodes = 2
    /\ Follows(ret.value, "--nodes=", << "1", "\n" >>)

\* C19: the script has one --time directive; it carries the supplied time
\* limit for every profile but CPU validation, whose branch (the default
\* one) always writes 0-00:10:00.
C19_TimeDirective ==
    IsSlurmCall =>
        LET t == call.args.optimization_type
        IN  /\ Count(ret.value, "--time=") = 1
            /\ t \in DeclaredProfiles \ { CPU_VALIDATION }
                 => Follows(ret.value, "--time=", call.args.time \o << "\n" >>)
            /\ t \notin DeclaredProfiles \ { CPU_VALIDATION }
                 => Follows(ret.value, "--time=", << "0-00:10:00", "\n" >>)

\* The CPU-validation profile asked for one hour.
C19_Witness ==
    /\ IsSlurmCall
    /\ call.args.optimization_type = CPU_VALIDATION
    /\ call.args.time = << "01:00:00" >>
    /\ Follows(ret.value, "--time=", << "0-00:10:00", "\n" >>)
    /\ ~Has(ret.value, "01:00:00")

C21_CustomGpuOrCpuRequest ==
    (IsSlurmCall /\ call.args.optimization_type = CUSTOM_JOB) =>
        LET n == call.args.gpus_per_node
            gpu == Follows(ret.value, "#SBATCH ",
                           << "--gpus=" >> \o Str(n)
                               \o << " ", "\n", "#SBATCH ", "--constraint=", "a100|h100", "\n" >>)
            cpu == Follows(ret.value, "#SBATCH ", << "--cpus-per-task=", "4", "\n" >>)
        IN  /\ gpu <=> n > 0
            /\ cpu <=> ~(n > 0)
            /\ n > 0 => Count(ret.value, "--gpus=") = 1 /\ Count(ret.value, "--cpus-per-task=") = 0
            /\ ~(n > 0) => \A d \in GpuDirectives \cup { "--constraint=" } : ~Has(ret.value, d)

\* The Custom profile asked for no GPU.
C21_Witness ==
    /\ IsSlurmCall
    /\ call.args.optimization_type = CUSTOM_JOB
    /\ call.args.gpus_per_node = 0
    /\ Has(ret.value, "--cpus-per-task=")
    /\ Has(ret.value, "# --- Custom User-Defined Job ---")

\* The GPU count a script requests per node by --gpus-per-node.
RequestedGpusPerNode(script) == Between(script, "--gpus-per-node=", " ")

\* The value a script exports as NPROC_PER_NODE.
ExportedNprocPerNode(script) == Between(script, "export NPROC_PER_NODE=", "\n")

\* C22: in the Multi-Node DDP profile the number of processes per node that
\* torchrun is handed (--nproc_per_node $NPROC_PER_NODE, with NPROC_PER_NODE
\* exported by the script) equals the GPU count the --gpus-per-node
\* directive of the same script requests per node.
C22_DdpProcessesMatchGpus ==
    (IsSlurmCall /\ call.args.optimization_type = MULTI_NODE_DDP) =>
        /\ Count(ret.value, "--gpus-per-node=") = 1
        /\ Count(ret.value, "export NPROC_PER_NODE=") = 1
        /\ RequestedGpusPerNode(ret.value) = Str(call.args.gpus_per_node)
        /\ ExportedNprocPerNode(ret.value) = RequestedGpusPerNode(ret.value)
        /\ Follows(ret.value, "        --nproc_per_node ", << "$NPROC_PER_NODE" >>)

\* The DDP profile on two nodes with four GPUs each.
C22_Witness ==
    /\ IsSlurmCall
    /\ call.args.optimization_type = MULTI_NODE_DDP
    /\ call.args.nodes = 2
    /\ call.args.gpus_per_node = 4
    /\ ExportedNprocPerNode(ret.value) = << "4" >>

\* The value of the --job-name directive of a script.
JobName(script) == Between(script, "--job-name=", "\n")

\* A name with every blank replaced by '_' and every '/' and ':' removed.
Sanitized(name) ==
    LET kept == SelectSeq(name, LAMBDA t : t \notin { "/", ":" })
    IN  [ i \in DOMAIN kept |-> IF kept[i] = " " THEN "_" ELSE kept[i] ]

\* Whitespace, '/' and ':'.
JobNameUnsafe == { " ", "\t", "\n", "/", ":" }

\* A text that has none of the given one-character tokens.
FreeOf(text, chars) == \A i \in DOMAIN text : text[i] \notin chars

\* The call in hand is generate_slurm_script for a declared profile.
DeclaredSlurmCall == IsSlurmCall /\ call.args.optimization_type \in DeclaredProfiles

\* C23 (as stated): for every declared profile the job name is
\* <project_name>_<profile>, the profile with its blanks replaced by '_' and
\* its '/' and ':' removed and the project name as supplied; and for a
\* project name free of whitespace the job name has no whitespace, '/' or
\* ':'.
C23_JobNameAsStated ==
    DeclaredSlurmCall =>
        /\ JobName(ret.value)
             = call.args.project_name \o << "_" >> \o Sanitized(call.args.optimization_type)
        /\ FreeOf(call.args.project_name, { " ", "\t", "\n" })
             => FreeOf(JobName(ret.value), JobNameUnsafe)

\* C23 (amended): for every declared profile the job name is
\* <project_name>_<profile>, the profile with its blanks replaced by '_' and
\* its '/' and ':' removed and the project name as supplied; so the job name
\* has no whitespace, '/' or ':' exactly when the project name has none: a
\* '/' or ':' of the project name stays in the job name.
C23_JobNameFromProjectAndProfile ==
    DeclaredSlurmCall =>
        /\ JobName(ret.value)
             = call.args.project_name \o << "_" >> \o Sanitized(call.args.optimization_type)
        /\ FreeOf(JobName(ret.value), JobNameUnsafe)
             <=> FreeOf(call.args.project_name, JobNameUnsafe)

\* A project name without blanks whose '/' and ':' are in the job name.
C23_Witness ==
    /\ IsSlurmCall
    /\ call.args.optimization_type = LORA_PEFT
    /\ call.args.project_name = << "team", "/", "llm", ":", "v2" >>
    /\ JobName(ret.value)
         = << "team", "/", "llm", ":", "v2", "_", "Low-Memory", "_", "Fine-Tuning", "_",
              "(LoRA", "PEFT)" >>

\* The first line of a text.
FirstLine(text) == UpTo(text, "\n")

\* The SLURM generators of the repository.
SlurmGenerators == { "generate_slurm_script", "app_slurm_script", "tools_slurm_script" }

\* C24: in every SLURM generator (local_to_hpc, streamlit_app, tools) the
\* script text that is displayed, copied or downloaded has #!/bin/bash as
\* its very first line.
C24_ShebangIsFirstLine ==
    call.fn \in SlurmGenerators => FirstLine(ret.value) = << "#!/bin/bash" >>

====
